---------------------------- MODULE Spec2Model ----------------------------
(***************************************************************************)
(* A model of the document structural parser of the repository:            *)
(*   - DocumentProcessor (src/preprocessing/document_processor.py): the    *)
(*     section, formula, table and requirement passes over one paragraph   *)
(*     stream and the cross-reference resolver, one processor object being *)
(*     reused for several documents by main();                             *)
(*   - NumberingProcessor (src/src/numbering_processor.py): the stack      *)
(*     based builder of the numbering forest;                              *)
(*   - the batch drivers: main() and save_processed_data of                *)
(*     document_processor.py and main() of src/process_pdfs.py, with an    *)
(*     exception possible at every step; the JSON tree DocumentEncoder     *)
(*     makes of a Document and the statistics written with it;             *)
(*   - GPTTeacher.format_prompt (src/model/gpt_teacher.py) and             *)
(*     BuildingCodeQA.load_documents (src/demo_simple.py).                 *)
(*                                                                         *)
(* Text is modelled as a sequence of tokens.  A token is one character     *)
(* ("1", ".", " ", "(", "T", "x", ...) or one whole word of the Spanish     *)
(* trigger phrases the regular expressions of the code look for ("debe",   *)
(* "se recomienda", "formula", ...).  The regular expressions are written  *)
(* as patterns over tokens and matched by Ends below.                      *)
(*                                                                         *)
(* Left out, as nothing modelled here reads them: Formula.variables and    *)
(* Formula.units (_extract_formula_details), the Chinese fields title_zh,  *)
(* content_zh, text_zh, caption_zh, the metadata dictionaries, the local   *)
(* current_sections of _process_sections (written, never read) and the    *)
(* content of the pickle and of the files of process_pdfs.py.  The fields  *)
(* doc, para, call and line and the variable inputs are history: they      *)
(* record where an object came from and are read by the properties only.   *)
(***************************************************************************)
EXTENDS Integers, Sequences, FiniteSets, TLC

-----------------------------------------------------------------------------
(* Tokens *)

NL == "NL"
Digits == {"0", "1", "2", "3", "4", "5", "6", "7", "8", "9"}
WS == {" ", NL}
LabelChars == Digits \cup {"."}
SepChars == {".", "-"}
Upper == {"T"}
Chars == Digits \cup {".", "-", " ", "(", ")", ",", "T", "x"}
Words == {"debe", "debera", "deben", "deberan", "sera", "seran",
          "es necesario", "se requiere", "ha", "han", "de",
          "no se admite", "no se admiten", "es obligatorio",
          "se recomienda", "es recomendable", "conviene", "es aconsejable",
          "preferentemente",
          "si", "cuando", "en", "el", "caso", "siempre", "que",
          "ecuacion", "formula", "expresion",
          "segun", "vease", "ver", "apartado", "punto", "la",
          "tabla", "cuadro"}
NotNL == Chars \cup Words

NULL == <<"None">>

-----------------------------------------------------------------------------
(* Sequences of tokens *)

Min(S) == CHOOSE x \in S : \A y \in S : x <= y
Max(S) == CHOOSE x \in S : \A y \in S : x >= y

RECURSIVE RunLen(_, _, _)
RunLen(s, k, S) ==
    IF k >= 1 /\ k <= Len(s) /\ s[k] \in S THEN 1 + RunLen(s, k + 1, S) ELSE 0

RECURSIVE Count(_, _)
Count(s, S) ==
    IF s = <<>> THEN 0
    ELSE (IF Head(s) \in S THEN 1 ELSE 0) + Count(Tail(s), S)

RECURSIVE LStrip(_)
LStrip(s) == IF s # <<>> /\ Head(s) \in WS THEN LStrip(Tail(s)) ELSE s

RECURSIVE RStrip(_)
RStrip(s) ==
    IF s # <<>> /\ s[Len(s)] \in WS THEN RStrip(SubSeq(s, 1, Len(s) - 1)) ELSE s

\* str.strip()
Strip(s) == RStrip(LStrip(s))

\* "\n".join(parts)
RECURSIVE JoinNL(_)
JoinNL(parts) ==
    IF parts = <<>> THEN <<>>
    ELSE IF Len(parts) = 1 THEN parts[1]
    ELSE parts[1] \o <<NL>> \o JoinNL(Tail(parts))

\* text.split('\n')
RECURSIVE SplitNL(_)
SplitNL(text) ==
    LET n == RunLen(text, 1, NotNL) IN
    IF n = Len(text) THEN <<text>>
    ELSE <<SubSeq(text, 1, n)>> \o SplitNL(SubSeq(text, n + 2, Len(text)))

-----------------------------------------------------------------------------
(* Regular expressions over tokens.  A pattern is a sequence of elements:  *)
(* One(S) one token of S, Opt(S) an optional token of S, Star(S) and       *)
(* Plus(S) a run of tokens of S, OptSeq(p) an optional sub-pattern.        *)
(* Ends(pat, text, pos) is the set of positions at which a match of pat    *)
(* that starts at pos can end (one past its last token).                   *)

One(S) == [kind |-> "one", set |-> S, sub |-> <<>>]
Opt(S) == [kind |-> "opt", set |-> S, sub |-> <<>>]
Star(S) == [kind |-> "star", set |-> S, sub |-> <<>>]
Plus(S) == [kind |-> "plus", set |-> S, sub |-> <<>>]
OptSeq(p) == [kind |-> "optseq", set |-> {}, sub |-> p]

RECURSIVE Ends(_, _, _)
Ends(pat, text, pos) ==
    IF pat = <<>> THEN {pos}
    ELSE LET el == Head(pat)
             rest == Tail(pat)
             here == pos <= Len(text) /\ text[pos] \in el.set
         IN CASE el.kind = "one" ->
                    IF here THEN Ends(rest, text, pos + 1) ELSE {}
              [] el.kind = "opt" ->
                    Ends(rest, text, pos)
                      \cup (IF here THEN Ends(rest, text, pos + 1) ELSE {})
              [] el.kind = "star" ->
                    UNION {Ends(rest, text, pos + j) :
                             j \in 0..RunLen(text, pos, el.set)}
              [] el.kind = "plus" ->
                    UNION {Ends(rest, text, pos + j) :
                             j \in 1..RunLen(text, pos, el.set)}
              [] el.kind = "optseq" ->
                    Ends(rest, text, pos)
                      \cup UNION {Ends(rest, text, e) :
                                    e \in Ends(el.sub, text, pos)}

\* The start positions, from k on, of the matches of pat in text.
Starts(pat, text, k) ==
    {p \in k..Len(text) : Ends(pat, text, p) # {}}

\* re.search(pat, text) finds a match.
Search(pat, text) == Starts(pat, text, 1) # {}

-----------------------------------------------------------------------------
(* The regular expressions of DocumentProcessor *)

\* (?:\d+\.)*\d+ on a run of digits and dots: groups of digits separated by
\* single dots.
IsSectionNumber(n) ==
    /\ n # <<>>
    /\ n[1] \in Digits
    /\ n[Len(n)] \in Digits
    /\ \A j \in 1..(Len(n) - 1) : ~(n[j] = "." /\ n[j + 1] = ".")

\* re.match(r'^(?P<number>(?:\d+\.)*\d+)\s+(?P<title>[A-Z].*$)', text).
\* The number is followed by white space, so it is the whole leading run of
\* digits and dots; "." and "$" keep the title on one line.
SectionMatch(text) ==
    LET n == RunLen(text, 1, LabelChars)
        w == RunLen(text, n + 1, WS)
        t == n + w + 1
    IN IF /\ n > 0
          /\ IsSectionNumber(SubSeq(text, 1, n))
          /\ w > 0
          /\ t <= Len(text)
          /\ text[t] \in Upper
          /\ RunLen(text, t, NotNL) = Len(text) - t + 1
       THEN [matched |-> TRUE,
             number |-> SubSeq(text, 1, n),
             title |-> SubSeq(text, t, Len(text))]
       ELSE [matched |-> FALSE, number |-> <<>>, title |-> <<>>]

\* section_number.count('.') + 1
SectionLevel(number) == Count(number, {"."}) + 1

\* '.'.join(section_number.split('.')[:-1]): the number up to its last dot.
ParentNumber(number) ==
    LET dots == {j \in 1..Len(number) : number[j] = "."}
    IN IF dots = {} THEN <<>> ELSE SubSeq(number, 1, Max(dots) - 1)

\* re.finditer(r'\(([\d.]+)\)(.*?)(?=\(|$)', text) from position k on: the
\* matches in order, each with group 1 and the stripped group 2.
RECURSIVE FormulaMatches(_, _)
FormulaMatches(text, k) ==
    IF k > Len(text) THEN <<>>
    ELSE LET n == RunLen(text, k + 1, LabelChars)
             b == k + n + 2
             e == b + RunLen(text, b, NotNL \ {"("})
         IN IF /\ text[k] = "("
               /\ n > 0
               /\ k + n + 1 <= Len(text)
               /\ text[k + n + 1] = ")"
               /\ (e > Len(text) \/ text[e] = "(")
            THEN <<[id |-> SubSeq(text, k + 1, k + n),
                    expression |-> Strip(SubSeq(text, b, e - 1))]>>
                   \o FormulaMatches(text, e)
            ELSE FormulaMatches(text, k + 1)

\* RequirementType
MANDATORY == "mandatory"
RECOMMENDED == "recommended"
CONDITIONAL == "conditional"

\* The keys of requirement_indicators in the order of the dict literal.
RequirementTypes == <<MANDATORY, RECOMMENDED, CONDITIONAL>>

CondTrigger == One({"debe", "debera", "deben", "deberan", "sera", "seran",
                    "es necesario"})
AnyText == Star(NotNL)

\* requirement_indicators
RequirementIndicators(req_type) ==
    CASE req_type = MANDATORY ->
           << <<One({"debe", "debera", "deben", "deberan"}), One(WS)>>,
              <<One({"sera", "seran"}), One(WS)>>,
              <<One({"es necesario"}), One(WS)>>,
              <<One({"se requiere"}), One(WS)>>,
              <<One({"ha", "han"}), One(WS), One({"de"}), One(WS)>>,
              <<One({"no se admite", "no se admiten"}), One(WS)>>,
              <<One({"es obligatorio"}), One(WS)>> >>
      [] req_type = RECOMMENDED ->
           << <<One({"se recomienda"}), One(WS)>>,
              <<One({"es recomendable"}), One(WS)>>,
              <<One({"conviene"}), One(WS)>>,
              <<One({"es aconsejable"}), One(WS)>>,
              <<One({"preferentemente"}), One(WS)>> >>
      [] req_type = CONDITIONAL ->
           << <<One({"si"}), One(WS), AnyText, One({","}), One(WS),
                CondTrigger>>,
              <<One({"cuando"}), One(WS), AnyText, One({","}), One(WS),
                CondTrigger>>,
              <<One({"en"}), OptSeq(<<One(WS), One({"el"})>>), One(WS),
                One({"caso"}), One(WS), One({"de"}), One(WS), AnyText,
                One({","}), One(WS), CondTrigger>>,
              <<One({"siempre"}), One(WS), One({"que"}), One(WS), AnyText,
                One({","}), One(WS), CondTrigger>> >>

\* Some pattern of the group matches: the inner loop reaches its break.
GroupMatches(req_type, text) ==
    \E j \in 1..Len(RequirementIndicators(req_type)) :
        Search(RequirementIndicators(req_type)[j], text)

\* condition_patterns: the lead of each pattern, with its prefix.
ConditionPatterns ==
    << [lead |-> <<One({"si"}), One(WS)>>, prefix |-> "si"],
       [lead |-> <<One({"cuando"}), One(WS)>>, prefix |-> "cuando"],
       [lead |-> <<One({"en"}), OptSeq(<<One(WS), One({"el"})>>), One(WS),
                   One({"caso"}), One(WS), One({"de"}), One(WS)>>,
        prefix |-> "en caso de"],
       [lead |-> <<One({"siempre"}), One(WS), One({"que"}), One(WS)>>,
        prefix |-> "siempre que"] >>

ClauseEnd == <<AnyText, One({","}), One(WS)>>

\* _extract_conditions: for each pattern that matches, in order, the prefix
\* and the stripped clause between the lead and the first ", " after it.
RECURSIVE ExtractConditions(_, _)
ExtractConditions(text, j) ==
    IF j > Len(ConditionPatterns) THEN <<>>
    ELSE LET cp == ConditionPatterns[j]
             starts == Starts(cp.lead \o ClauseEnd, text, 1)
         IN IF starts = {} THEN ExtractConditions(text, j + 1)
            ELSE LET p == Min(starts)
                     b == Min({x \in Ends(cp.lead, text, p) :
                                 Ends(ClauseEnd, text, x) # {}})
                     e == Min(Ends(ClauseEnd, text, b))
                 IN <<[prefix |-> cp.prefix,
                       clause |-> Strip(SubSeq(text, b, e - 3))]>>
                      \o ExtractConditions(text, j + 1)

\* (?:según|véase|ver)\s+(?:el\s+)?(?:apartado|punto)\s+ , the part of the
\* section citation before its group ([\d.]+)
SectionRefLead ==
    <<One({"segun", "vease", "ver"}), Plus(WS),
      OptSeq(<<One({"el"}), Plus(WS)>>),
      One({"apartado", "punto"}), Plus(WS)>>

\* re.finditer of the section citation in content from position k on: the
\* cited ids (group 1, the whole run of digits and dots) in order.
RECURSIVE SectionRefs(_, _)
SectionRefs(content, k) ==
    LET starts == Starts(SectionRefLead \o <<One(LabelChars)>>, content, k)
    IN IF starts = {} THEN <<>>
       ELSE LET p == Min(starts)
                b == Min(Ends(SectionRefLead \o <<One(LabelChars)>>,
                              content, p)) - 1
                e == b + RunLen(content, b, LabelChars)
            IN <<SubSeq(content, b, e - 1)>> \o SectionRefs(content, e)

\* The formula id spliced into the regular expression unescaped: a digit
\* stands for itself and "." for any one character but a newline.
IdPattern(id) ==
    [j \in 1..Len(id) |->
        IF id[j] = "." THEN One(Chars) ELSE One({id[j]})]

\* Mutant of CitesFormula: re.match for re.search (a match at the start only).
CitesFormulaAtStart(content, id) ==
    Ends(<<One({"ecuacion", "formula", "expresion"}), Star(WS), Opt({"("})>>
           \o IdPattern(id) \o <<Opt({")"})>>, content, 1) # {}

\* re.search(fr'(?:ecuación|fórmula|expresión)\s*\(?{formula.id}\)?', content)
CitesFormula(content, id) ==
    Search(<<One({"ecuacion", "formula", "expresion"}), Star(WS), Opt({"("})>>
             \o IdPattern(id) \o <<Opt({")"})>>, content)

-----------------------------------------------------------------------------
(* Inputs: the paragraphs and table grids that the Word reader delivers *)

MaxParas == 3
MaxBatchParas == 2
MaxTables == 2
MaxDocs == 2

HeaderOne == <<"1", " ", "T">>
HeaderOneOne == <<"1", ".", "1", " ", "T">>
BodyText == <<"x">>
BlankText == <<" ">>
MandatoryText == <<"x", " ", "debe", " ", "x">>
MixedText == <<"se recomienda", " ", "x", " ", "cuando", " ", "x", ",", " ",
               "debe", " ", "x">>
FormulaText == <<"(", "1", ")", " ", "x">>
CitingText == <<"formula", " ", "(", "1", ")", " ", "x">>
ReferringText == <<"ver", " ", "apartado", " ", "1">>

Paras == {HeaderOne, HeaderOneOne, BodyText, BlankText, MandatoryText,
          MixedText, FormulaText, CitingText, ReferringText}
BatchParas == {HeaderOne, BodyText, FormulaText}

\* A grid is its rows, a row its cell texts.
HeaderRow == << <<"T">>, <<"T", " ">> >>
DataRow == << <<" ", "x">>, <<"1">> >>
Grids == {<<>>, <<HeaderRow>>, <<HeaderRow, DataRow>>}

SeqsUpTo(S, n) == UNION {[1..m -> S] : m \in 0..n}

\* A text document without tables, or a document with tables and a simple text.
Docs ==
    {[paragraphs |-> ps, tables |-> <<>>] : ps \in SeqsUpTo(Paras, MaxParas)}
      \cup {[paragraphs |-> ps, tables |-> ts] :
              ps \in SeqsUpTo({HeaderOne, BodyText}, MaxBatchParas),
              ts \in SeqsUpTo(Grids, MaxTables)}
BatchDocs ==
    {[paragraphs |-> ps, tables |-> <<>>] :
       ps \in SeqsUpTo(BatchParas, MaxBatchParas)}
      \cup {[paragraphs |-> <<BodyText>>, tables |-> <<<<HeaderRow>>>>]}

-----------------------------------------------------------------------------
(* State *)

VARIABLES
    pc,                \* where the processor is: "idle" or the running pass
    idx,               \* the position of the running loop
    paragraphs,        \* docx.paragraphs of the document being processed
    tables,            \* docx.tables of the document being processed
    section_objs,      \* every Section object created so far
    formula_objs,      \* every Formula object created so far
    table_objs,        \* every Table object created so far
    current_document,  \* self.current_document: NULL or a Document
    current_section,   \* self.current_section: 0 (None) or a Section object
    section_content,   \* the local section_content of _process_sections
    current_context,   \* the local current_context of a pass
    returned,          \* the Documents process_document has returned
    inputs             \* history: the paragraph streams processed so far

docVars == <<pc, idx, paragraphs, tables, section_objs, formula_objs,
             table_objs, current_document, current_section, section_content,
             current_context, returned, inputs>>

VARIABLES
    num_pc,        \* "idle", or "running" inside process_numbering
    lines,         \* the local lines of process_numbering
    line_idx,      \* the position of its loop
    node_objs,     \* every NumberingNode created so far
    root_nodes,    \* self.root_nodes
    current_path,  \* the local current_path of process_numbering
    calls,         \* history: the number of calls of process_numbering
    results        \* what each call returned

numVars == <<num_pc, lines, line_idx, node_objs, root_nodes, current_path,
             calls, results>>

NumInit ==
    /\ num_pc = "idle"
    /\ lines = <<>>
    /\ line_idx = 0
    /\ node_objs = <<>>
    /\ root_nodes = <<>>
    /\ current_path = <<>>
    /\ calls = 0
    /\ results = <<>>

VARIABLES
    driver,     \* the main() that runs: "none", "word" or "pdf"
    batch,      \* the stems of the file names of the documents of the batch
    doc_i,      \* the position in the batch of the loop of main()
    step,       \* where the iteration is: "process" or the file being saved
    clock,      \* the time datetime.now() read last, in seconds
    stamp,      \* the local timestamp of save_processed_data
    written,    \* history: the files opened for writing, in order
    pdf_calls,  \* history: the documents process_pdf was called with
    log,        \* the documents whose exception main() has caught and printed
    saved       \* history: the documents whose iteration ended without one

drvVars == <<driver, batch, doc_i, step, clock, stamp, written, pdf_calls,
             log, saved>>

DrvInit ==
    /\ driver = "none"
    /\ batch = <<>>
    /\ doc_i = 0
    /\ step = "process"
    /\ clock = 0
    /\ stamp = 0
    /\ written = <<>>
    /\ pdf_calls = <<>>
    /\ log = <<>>
    /\ saved = <<>>

\* GPTTeacher (src/model/gpt_teacher.py).
VARIABLES
    language,    \* self.language, "none" before the teacher is made
    prompts,     \* self.prompts: the templates of each language
    prompt_log   \* history: the calls of format_prompt and what they returned

gptVars == <<language, prompts, prompt_log>>

\* BuildingCodeQA (src/demo_simple.py).
VARIABLES
    documents    \* self.documents, with the outcome of load_documents

qaVars == <<documents>>

\* A dict: its keys in insertion order and the value of each key.
EmptyDict == [keys |-> <<>>, val |-> <<>>]
DictHas(d, k) == k \in DOMAIN d.val
DictPut(d, k, v) ==
    [keys |-> IF DictHas(d, k) THEN d.keys ELSE Append(d.keys, k),
     val |-> (k :> v) @@ d.val]
DictValues(d) == [j \in 1..Len(d.keys) |-> d.val[d.keys[j]]]

\* The number of the document being processed (history).
DocNo == Len(inputs)

\* Document(filename=...): sections, formulas and tables are fresh dicts.
NewDocument(n) ==
    [filename |-> n, sections |-> EmptyDict, formulas |-> EmptyDict,
     tables |-> EmptyDict]

\* Section(id=..., title_es=..., level=...): the other fields at their
\* defaults.  doc and para are history: where the header was read.
NewSection(number, title, level) ==
    [id |-> number, title_es |-> title, content_es |-> <<>>, level |-> level,
     parent_section |-> NULL, subsections |-> <<>>, formulas |-> <<>>,
     tables |-> <<>>, requirements |-> <<>>, references |-> <<>>,
     referenced_by |-> <<>>, doc |-> DocNo, para |-> idx]

DocInit ==
    /\ pc = "idle"
    /\ idx = 0
    /\ paragraphs = <<>>
    /\ tables = <<>>
    /\ section_objs = <<>>
    /\ formula_objs = <<>>
    /\ table_objs = <<>>
    /\ current_document = NULL
    /\ current_section = 0
    /\ section_content = <<>>
    /\ current_context = <<>>
    /\ returned = <<>>
    /\ inputs = <<>>

-----------------------------------------------------------------------------
(* DocumentProcessor.process_document *)

\* process_document up to the call of _process_sections: a new Document;
\* self.current_section keeps the value the last document left.
LoadDocument(docs, maxDocs) ==
    /\ pc = "idle"
    /\ Len(returned) < maxDocs
    /\ \E doc \in docs :
         /\ paragraphs' = doc.paragraphs
         /\ tables' = doc.tables
         /\ inputs' = Append(inputs, doc.paragraphs)
    /\ current_document' = NewDocument(Len(inputs) + 1)
    /\ pc' = "sections"
    /\ idx' = 1
    /\ section_content' = <<>>
    /\ UNCHANGED <<section_objs, formula_objs, table_objs, current_section,
                   current_context, returned,
                   numVars, drvVars, gptVars, qaVars>>

\* if section_content and self.current_section:
\*     self.current_section.content_es = "\n".join(section_content)
Flush(objs) ==
    IF section_content # <<>> /\ current_section # 0
    THEN [objs EXCEPT ![current_section].content_es = JoinNL(section_content)]
    ELSE objs

\* Mutant of ParentOf: the section stored first is taken as the parent.
ParentOfFirst(number, level) ==
    IF level > 1 /\ current_document.sections.keys # <<>>
    THEN current_document.sections.val[current_document.sections.keys[1]]
    ELSE 0

\* The parent lookup of a new section: the section stored under the number
\* without its last segment, or 0.
ParentOf(number, level) ==
    IF level > 1 /\ DictHas(current_document.sections, ParentNumber(number))
    THEN current_document.sections.val[ParentNumber(number)]
    ELSE 0

\* One paragraph of the loop of _process_sections.
SectionStep ==
    /\ pc = "sections"
    /\ idx <= Len(paragraphs)
    /\ idx' = idx + 1
    /\ LET text == Strip(paragraphs[idx])
           m == SectionMatch(text)
           level == SectionLevel(m.number)
           new == Len(section_objs) + 1
           parent == ParentOf(m.number, level)
           section == NewSection(m.number, Strip(m.title), level)
           linked == IF parent # 0
                     THEN [section EXCEPT
                             !.parent_section = section_objs[parent].id]
                     ELSE section
           flushed == Append(Flush(section_objs), linked)
       IN IF text = <<>>
          THEN UNCHANGED <<section_objs, current_document, current_section,
                           section_content>>
          ELSE IF m.matched
          THEN /\ section_objs' =
                    IF parent # 0
                    THEN [flushed EXCEPT ![parent].subsections =
                            Append(@, section.id)]
                    ELSE flushed
               /\ section_content' = <<>>
               /\ current_document' =
                    [current_document EXCEPT
                       !.sections = DictPut(@, section.id, new)]
               /\ current_section' = new
          ELSE /\ section_content' = Append(section_content, text)
               /\ UNCHANGED <<section_objs, current_document, current_section>>
    /\ UNCHANGED <<pc, paragraphs, tables, formula_objs, table_objs,
                   current_context, returned, inputs,
                   numVars, drvVars, gptVars, qaVars>>

\* The end of _process_sections: the content of the last section; then the
\* start of _process_formulas.
SectionsEnd ==
    /\ pc = "sections"
    /\ idx > Len(paragraphs)
    /\ section_objs' = Flush(section_objs)
    /\ section_content' = <<>>
    /\ pc' = "formulas"
    /\ idx' = 1
    /\ current_context' = <<>>
    /\ UNCHANGED <<paragraphs, tables, formula_objs, table_objs,
                   current_document, current_section, returned, inputs,
                   numVars, drvVars, gptVars, qaVars>>

\* The sliding context of a pass holds the last ContextWindow paragraphs.
ContextWindow == 3

\* current_context.append(text), and pop(0) when it grows over the window.
PushContext(ctx, text) ==
    IF Len(ctx) + 1 > ContextWindow THEN Tail(Append(ctx, text))
    ELSE Append(ctx, text)

\* self.current_section.id if self.current_section else ""
CurrentSectionId ==
    IF current_section # 0 THEN section_objs[current_section].id ELSE <<>>

\* Formula(id=..., expression=..., context_es=..., section_id=...).  doc and
\* para are history: where the label was matched.
NewFormula(m, context) ==
    [id |-> m.id, expression |-> m.expression, context_es |-> context,
     section_id |-> CurrentSectionId, referenced_by |-> <<>>,
     doc |-> DocNo, para |-> idx]

\* d[ks[j]] = first + j for j = 1 .. Len(ks), in order.
RECURSIVE DictPutAll(_, _, _)
DictPutAll(d, ks, first) ==
    IF ks = <<>> THEN d
    ELSE DictPutAll(DictPut(d, Head(ks), first + 1), Tail(ks), first + 1)

\* One paragraph of the loop of _process_formulas: every label matched in
\* it is stored under its id in the Document and appended to the formulas of
\* self.current_section.
FormulaStep ==
    /\ pc = "formulas"
    /\ idx <= Len(paragraphs)
    /\ idx' = idx + 1
    /\ LET text == Strip(paragraphs[idx])
           context == PushContext(current_context, text)
           ms == FormulaMatches(text, 1)
           first == Len(formula_objs)
           refs == [j \in 1..Len(ms) |-> first + j]
       IN IF text = <<>>
          THEN UNCHANGED <<formula_objs, current_document, section_objs,
                           current_context>>
          ELSE /\ current_context' = context
               /\ formula_objs' =
                    formula_objs
                      \o [j \in 1..Len(ms) |-> NewFormula(ms[j], JoinNL(context))]
               /\ current_document' =
                    [current_document EXCEPT
                       !.formulas =
                          DictPutAll(@, [j \in 1..Len(ms) |-> ms[j].id], first)]
               /\ section_objs' =
                    IF current_section # 0
                    THEN [section_objs EXCEPT ![current_section].formulas = @ \o refs]
                    ELSE section_objs
    /\ UNCHANGED <<pc, paragraphs, tables, table_objs, current_section,
                   section_content, returned, inputs,
                   numVars, drvVars, gptVars, qaVars>>

\* The end of _process_formulas and the start of _process_tables.
FormulasEnd ==
    /\ pc = "formulas"
    /\ idx > Len(paragraphs)
    /\ pc' = "tables"
    /\ idx' = 1
    /\ current_context' = <<>>
    /\ UNCHANGED <<paragraphs, tables, section_objs, formula_objs, table_objs,
                   current_document, current_section, section_content,
                   returned, inputs,
                   numVars, drvVars, gptVars, qaVars>>

\* str(n) in decimal digits
DigitOf(d) ==
    CASE d = 0 -> "0" [] d = 1 -> "1" [] d = 2 -> "2" [] d = 3 -> "3"
      [] d = 4 -> "4" [] d = 5 -> "5" [] d = 6 -> "6" [] d = 7 -> "7"
      [] d = 8 -> "8" [] d = 9 -> "9"
RECURSIVE Str(_)
Str(n) == IF n < 10 THEN <<DigitOf(n)>> ELSE Str(n \div 10) \o <<DigitOf(n % 10)>>

\* Mutant of TableId: the grids counted from 0.
TableIdFromZero(i) == <<"Table_">> \o Str(i - 1)

\* f"Table_{i}"
TableId(i) == <<"Table_">> \o Str(i)

\* _find_table_caption: f"Tabla {index}"
FindTableCaption(i) == <<"Tabla", " ">> \o Str(i)

\* _extract_headers: the stripped cell texts of the first row
ExtractHeaders(grid) ==
    IF grid = <<>> THEN <<>>
    ELSE [c \in 1..Len(grid[1]) |-> Strip(grid[1][c])]

\* _extract_table_data: the stripped cell texts of the rows after the first
ExtractTableData(grid) ==
    [r \in 1..(Len(grid) - 1) |->
        [c \in 1..Len(grid[r + 1]) |-> Strip(grid[r + 1][c])]]

\* Table(id=f"Table_{i}", caption_es=..., section_id=..., headers=..., data=...)
NewTable(grid, i) ==
    [id |-> TableId(i), caption_es |-> FindTableCaption(i),
     section_id |-> CurrentSectionId, headers |-> ExtractHeaders(grid),
     data |-> ExtractTableData(grid), referenced_by |-> <<>>, doc |-> DocNo]

\* One grid of the loop of _process_tables (enumerate from 1): a grid with
\* no rows is skipped.
TableStep ==
    /\ pc = "tables"
    /\ idx <= Len(tables)
    /\ idx' = idx + 1
    /\ LET grid == tables[idx]
           new == Len(table_objs) + 1
       IN IF grid = <<>>
          THEN UNCHANGED <<table_objs, current_document, section_objs>>
          ELSE /\ table_objs' = Append(table_objs, NewTable(grid, idx))
               /\ current_document' =
                    [current_document EXCEPT
                       !.tables = DictPut(@, TableId(idx), new)]
               /\ section_objs' =
                    IF current_section # 0
                    THEN [section_objs EXCEPT
                            ![current_section].tables = Append(@, new)]
                    ELSE section_objs
    /\ UNCHANGED <<pc, paragraphs, tables, formula_objs, current_section,
                   section_content, current_context, returned, inputs,
                   numVars, drvVars, gptVars, qaVars>>

\* The end of _process_tables and the start of _process_requirements.
TablesEnd ==
    /\ pc = "tables"
    /\ idx > Len(tables)
    /\ pc' = "requirements"
    /\ idx' = 1
    /\ current_context' = <<>>
    /\ UNCHANGED <<paragraphs, tables, section_objs, formula_objs, table_objs,
                   current_document, current_section, section_content,
                   returned, inputs,
                   numVars, drvVars, gptVars, qaVars>>

\* _find_related_items: the ids (group 1, a run of digits and dots) cited
\* after one of the words, white space and "(" being optional.  The second
\* pattern of each list (with a leading "según") finds a subset of the ids
\* of the first; the result is a set turned into a list.
RelatedItems(words, text) ==
    LET lead == <<One(words), Star(WS), Opt({"("}), One(LabelChars)>>
        begins == {e - 1 : e \in UNION {Ends(lead, text, p) : p \in 1..Len(text)}}
    IN {SubSeq(text, b, b + RunLen(text, b, LabelChars) - 1) : b \in begins}

\* The types, in the order of requirement_indicators, whose inner loop finds
\* a matching pattern: the break leaves the inner loop only, so every group
\* is tried.
MatchedTypes(text) ==
    SelectSeq(RequirementTypes, LAMBDA t : GroupMatches(t, text))

\* Mutant of ExtractsConditions: the conditions are extracted for every type.
ExtractsConditionsAlways(req_type) == TRUE

\* if req_type == RequirementType.CONDITIONAL: self._extract_conditions(...)
ExtractsConditions(req_type) == req_type = CONDITIONAL

\* Requirement(text_es=text, type=req_type) with its context, its related
\* items and, for CONDITIONAL, its conditions.  doc and para are history:
\* the paragraph it was made from.
NewRequirement(text, req_type, context) ==
    [text_es |-> text, type |-> req_type, context |-> context,
     related_formulas |-> RelatedItems({"ecuacion", "formula", "expresion"}, text),
     related_tables |-> RelatedItems({"tabla", "cuadro"}, text),
     conditions |-> IF ExtractsConditions(req_type)
                    THEN ExtractConditions(text, 1)
                    ELSE <<>>,
     doc |-> DocNo, para |-> idx]

\* One paragraph of the loop of _process_requirements.
RequirementStep ==
    /\ pc = "requirements"
    /\ idx <= Len(paragraphs)
    /\ idx' = idx + 1
    /\ LET text == Strip(paragraphs[idx])
           context == PushContext(current_context, text)
           types == MatchedTypes(text)
           reqs == [j \in 1..Len(types) |->
                      NewRequirement(text, types[j], JoinNL(context))]
       IN IF text = <<>>
          THEN UNCHANGED <<section_objs, current_context>>
          ELSE /\ current_context' = context
               /\ section_objs' =
                    IF current_section # 0
                    THEN [section_objs EXCEPT
                            ![current_section].requirements = @ \o reqs]
                    ELSE section_objs
    /\ UNCHANGED <<pc, paragraphs, tables, formula_objs, table_objs,
                   current_document, current_section, section_content,
                   returned, inputs,
                   numVars, drvVars, gptVars, qaVars>>

\* The end of _process_requirements and the start of _build_references.
RequirementsEnd ==
    /\ pc = "requirements"
    /\ idx > Len(paragraphs)
    /\ pc' = "references"
    /\ idx' = 1
    /\ current_context' = <<>>
    /\ UNCHANGED <<paragraphs, tables, section_objs, formula_objs, table_objs,
                   current_document, current_section, section_content,
                   returned, inputs,
                   numVars, drvVars, gptVars, qaVars>>

\* The cited ids that are keys of the sections of the Document.
\* Mutant of KnownRefs: the test of ref_id is left out.
KnownRefsAll(refs) == refs

KnownRefs(refs) ==
    SelectSeq(refs, LAMBDA r : DictHas(current_document.sections, r))

\* Mutant of BackReference: the cited id is appended, not the citing one.
BackReferenceCited(section, ref_id) == ref_id

\* self.current_document.sections[ref_id].referenced_by.append(section.id):
\* what is appended to the referenced_by of the section stored under ref_id.
BackReference(section, ref_id) == section.id

\* One section of the first loop of _build_references: each citation of a
\* known section id is appended to the references of the citing section and
\* the citing id to the referenced_by of the cited one.
ReferenceStep ==
    /\ pc = "references"
    /\ idx <= Len(current_document.sections.keys)
    /\ idx' = idx + 1
    /\ LET secs == current_document.sections
           s == secs.val[secs.keys[idx]]
           section == section_objs[s]
           known == KnownRefs(SectionRefs(section.content_es, 1))
           cited(o) ==
               Len(SelectSeq(known, LAMBDA r : DictHas(secs, r) /\ secs.val[r] = o))
       IN section_objs' =
            [o \in DOMAIN section_objs |->
               [section_objs[o] EXCEPT
                  !.references = IF o = s THEN @ \o known ELSE @,
                  !.referenced_by =
                     @ \o [j \in 1..cited(o) |->
                             BackReference(section, section_objs[o].id)]]]
    /\ UNCHANGED <<pc, paragraphs, tables, formula_objs, table_objs,
                   current_document, current_section, section_content,
                   current_context, returned, inputs,
                   numVars, drvVars, gptVars, qaVars>>

\* The end of the first loop of _build_references.
ReferencesEnd ==
    /\ pc = "references"
    /\ idx > Len(current_document.sections.keys)
    /\ pc' = "formula_references"
    /\ idx' = 1
    /\ UNCHANGED <<paragraphs, tables, section_objs, formula_objs, table_objs,
                   current_document, current_section, section_content,
                   current_context, returned, inputs,
                   numVars, drvVars, gptVars, qaVars>>

\* The sections, in the order of the dict, whose content cites the formula:
\* the loop over self.current_document.sections.values() leaves none out.
CitingSections(formula) ==
    SelectSeq(DictValues(current_document.sections),
              LAMBDA o : CitesFormula(section_objs[o].content_es, formula.id))

\* Mutant of AppendCiting: the ids are appended to the context instead.
AppendCitingToContext(formula, ids) == [formula EXCEPT !.context_es = @ \o ids]

\* formula.referenced_by.append(other_section.id), for each citing section.
AppendCiting(formula, ids) == [formula EXCEPT !.referenced_by = @ \o ids]

\* One formula of the second loop of _build_references.
FormulaReferenceStep ==
    /\ pc = "formula_references"
    /\ idx <= Len(current_document.formulas.keys)
    /\ idx' = idx + 1
    /\ LET f == current_document.formulas.val[current_document.formulas.keys[idx]]
           formula == formula_objs[f]
           citing == CitingSections(formula)
       IN formula_objs' =
            IF /\ formula.section_id # <<>>
               /\ DictHas(current_document.sections, formula.section_id)
            THEN [formula_objs EXCEPT
                    ![f] = AppendCiting(@, [j \in 1..Len(citing) |->
                                              section_objs[citing[j]].id])]
            ELSE formula_objs
    /\ UNCHANGED <<pc, paragraphs, tables, section_objs, table_objs,
                   current_document, current_section, section_content,
                   current_context, returned, inputs,
                   numVars, drvVars, gptVars, qaVars>>

\* return self.current_document
Return ==
    /\ pc = "formula_references"
    /\ idx > Len(current_document.formulas.keys)
    /\ returned' = Append(returned, current_document)
    /\ pc' = "idle"
    /\ idx' = 0
    /\ UNCHANGED <<paragraphs, tables, section_objs, formula_objs, table_objs,
                   current_document, current_section, section_content,
                   current_context, inputs,
                   numVars, drvVars, gptVars, qaVars>>

\* The passes of process_document after the document is loaded.
Passes ==
    \/ SectionStep
    \/ SectionsEnd
    \/ FormulaStep
    \/ FormulasEnd
    \/ TableStep
    \/ TablesEnd
    \/ RequirementStep
    \/ RequirementsEnd
    \/ ReferenceStep
    \/ ReferencesEnd
    \/ FormulaReferenceStep
    \/ Return

-----------------------------------------------------------------------------
(* NumberingProcessor *)

MaxLines == 4

LineOne == <<"1">>
LineOneOne == <<"1", ".", "1">>
LineOneOneOne == <<"1", ".", "1", ".", "1">>
LineOneTwo == <<"1", ".", "2">>
LineTwoDashOne == <<" ", "2", "-", "1", " ", "T">>
LineText == <<"x", " ", "1">>
LineBlank == <<" ">>

NumLines == {LineOne, LineOneOne, LineOneOneOne, LineOneTwo, LineTwoDashOne,
             LineText, LineBlank}

\* The texts of up to MaxLines lines.
Texts == {JoinNL(ls) : ls \in SeqsUpTo(NumLines, MaxLines) \ {<<>>}}

\* The end of a match of \d+(?:[.-]\d+)* that has reached position e.
RECURSIVE NumberEnd(_, _)
NumberEnd(line, e) ==
    IF /\ e + 1 <= Len(line)
       /\ line[e + 1] \in SepChars
       /\ RunLen(line, e + 2, Digits) > 0
    THEN NumberEnd(line, e + 1 + RunLen(line, e + 2, Digits))
    ELSE e

\* Mutant of NumberMatch: + for * in the pattern, a number needs a separator.
NumberMatchDotted(line) ==
    LET e == NumberEnd(line, RunLen(line, 1, Digits))
    IN IF RunLen(line, 1, Digits) > 0 /\ e > RunLen(line, 1, Digits)
       THEN [matched |-> TRUE, number |-> SubSeq(line, 1, e),
             title |-> Strip(SubSeq(line, e + 1, Len(line)))]
       ELSE [matched |-> FALSE, number |-> <<>>, title |-> <<>>]

\* re.match(self._number_pattern, line) with r'^(\d+(?:[.-]\d+)*)': the
\* number (group 1) and the stripped rest of the line.
NumberMatch(line) ==
    LET e == NumberEnd(line, RunLen(line, 1, Digits))
    IN IF RunLen(line, 1, Digits) > 0
       THEN [matched |-> TRUE, number |-> SubSeq(line, 1, e),
             title |-> Strip(SubSeq(line, e + 1, Len(line)))]
       ELSE [matched |-> FALSE, number |-> <<>>, title |-> <<>>]

\* Mutant of GetLevel: only the dots are counted.
GetLevelDots(number) == Count(number, {"."}) + 1

\* _get_level: len(re.findall(r'[.-]', number)) + 1
GetLevel(number) == Count(number, SepChars) + 1

\* process_numbering up to its loop: the lines of the text and an empty
\* current_path; self.root_nodes keeps the nodes of earlier calls.
ProcessNumbering(texts, maxCalls) ==
    /\ num_pc = "idle"
    /\ calls < maxCalls
    /\ calls' = calls + 1
    /\ \E text \in texts : lines' = SplitNL(text)
    /\ line_idx' = 1
    /\ current_path' = <<>>
    /\ num_pc' = "running"
    /\ UNCHANGED <<node_objs, root_nodes, results,
                   docVars, drvVars, gptVars, qaVars>>

\* Mutant of PopWhile: a top of equal level is kept (> for >=).
PopWhileDeeper(top, node) == top.level > node.level

\* The test of the while loop of _handle_node_hierarchy on the top of the path.
PopWhile(top, node) == top.level >= node.level

\* while current_path and current_path[-1].level >= node.level: pop()
RECURSIVE PopPath(_, _)
PopPath(path, node) ==
    IF path # <<>> /\ PopWhile(node_objs[path[Len(path)]], node)
    THEN PopPath(SubSeq(path, 1, Len(path) - 1), node)
    ELSE path

\* Mutant of AppendChild: the node is put in front of its siblings.
PrependChild(children, node) == <<node>> \o children

\* parent.children.append(node)
AppendChild(children, node) == Append(children, node)

\* NumberingNode(number=..., level=..., title=..., children=[], metadata={}).
\* call and line are history: the line the node was made from.
NewNode(m) ==
    [number |-> m.number, level |-> GetLevel(m.number), title |-> m.title,
     parent |-> 0, children |-> <<>>, call |-> calls, line |-> line_idx]

\* One line of the loop of process_numbering, with _handle_node_hierarchy.
NumberingStep ==
    /\ num_pc = "running"
    /\ line_idx <= Len(lines)
    /\ line_idx' = line_idx + 1
    /\ LET line == Strip(lines[line_idx])
           m == NumberMatch(line)
           node == NewNode(m)
           new == Len(node_objs) + 1
           path == PopPath(current_path, node)
           parent == IF path = <<>> THEN 0 ELSE path[Len(path)]
       IN IF line = <<>> \/ ~m.matched
          THEN UNCHANGED <<node_objs, root_nodes, current_path>>
          ELSE IF current_path = <<>>
          THEN /\ node_objs' = Append(node_objs, node)
               /\ root_nodes' = Append(root_nodes, new)
               /\ current_path' = <<new>>
          ELSE /\ node_objs' =
                    IF parent # 0
                    THEN Append([node_objs EXCEPT
                                   ![parent].children = AppendChild(@, new)],
                                [node EXCEPT !.parent = parent])
                    ELSE Append(node_objs, node)
               /\ root_nodes' =
                    IF parent # 0 THEN root_nodes ELSE Append(root_nodes, new)
               /\ current_path' = Append(path, new)
    /\ UNCHANGED <<num_pc, lines, calls, results,
                   docVars, drvVars, gptVars, qaVars>>

\* return self.root_nodes
NumberingReturn ==
    /\ num_pc = "running"
    /\ line_idx > Len(lines)
    /\ results' = Append(results, root_nodes)
    /\ num_pc' = "idle"
    /\ line_idx' = 0
    /\ current_path' = <<>>
    /\ UNCHANGED <<lines, node_objs, root_nodes, calls,
                   docVars, drvVars, gptVars, qaVars>>

-----------------------------------------------------------------------------
(* The batch drivers: main() of document_processor.py and of process_pdfs.py *)

\* The seconds the clock can show.
MaxClock == 1

\* The stems of the file names of a batch.
Stems == {"a", "b"}

\* The batches: up to MaxDocs documents.
Batches == SeqsUpTo(Stems, MaxDocs) \ {<<>>}

\* The document the Word driver reads: a header, a labelled formula and a
\* table, so that every pass has something to do.
DriverDocs ==
    {[paragraphs |-> <<HeaderOne, FormulaText>>, tables |-> <<<<HeaderRow>>>>]}

\* What opening a file for writing and writing it can do: open() raises and
\* leaves no file; open() creates (or truncates) the file and the write
\* raises; both succeed.
WriteOutcomes == {"open_fails", "write_fails", "ok"}

\* f"{base_name}_{timestamp}.json", ".pkl" and "_stats.json"
WordPath(stem, timestamp, kind) == <<stem, timestamp, kind>>

\* f"{os.path.splitext(filename)[0]}.json" and ".md"
PdfPath(stem, kind) == <<stem, kind>>

\* Mutant of AfterFailure: the loop is left after an exception.
AfterFailureStop(i) == Len(batch) + 1

\* except Exception: print ...; the for loop goes on with the next document.
AfterFailure(i) == i + 1

\* main() of document_processor.py up to its loop: a new DocumentProcessor
\* and the list of documents (here any batch, not only the two of the code).
Main(batches) ==
    /\ driver = "none"
    /\ pc = "idle" /\ inputs = <<>>
    /\ driver' = "word"
    /\ \E b \in batches : batch' = b
    /\ doc_i' = 1
    /\ step' = "process"
    /\ UNCHANGED <<clock, stamp, written, pdf_calls, log, saved,
                   docVars, numVars, gptVars, qaVars>>

\* document = processor.process_document(doc_path): the call; its passes
\* are the actions of process_document.
ProcessDocument(docs) ==
    /\ driver = "word"
    /\ step = "process"
    /\ doc_i <= Len(batch)
    /\ Len(inputs) = doc_i - 1
    /\ LoadDocument(docs, Len(batch))

\* An exception inside process_document, at any point of any pass, caught
\* by the except clause of main().  (An unreadable file raises in
\* DocxDocument(doc_path), before the new Document is made: here that is the
\* exception right after LoadDocument.)
Raise ==
    /\ driver = "word"
    /\ pc # "idle"
    /\ pc' = "idle"
    /\ idx' = 0
    /\ log' = Append(log, doc_i)
    /\ doc_i' = AfterFailure(doc_i)
    /\ UNCHANGED <<driver, batch, step, clock, stamp, written, pdf_calls, saved,
                   paragraphs, tables, section_objs, formula_objs, table_objs,
                   current_document, current_section, section_content,
                   current_context, returned, inputs,
                   numVars, gptVars, qaVars>>

\* save_processed_data up to the first file: mkdir, which can raise, and
\* the timestamp, read from a clock that never goes back.
SaveStart ==
    /\ driver = "word"
    /\ step = "process"
    /\ pc = "idle"
    /\ doc_i <= Len(batch)
    /\ Len(inputs) = doc_i
    /\ \/ /\ \E t \in clock..MaxClock : clock' = t /\ stamp' = t
          /\ step' = "json"
          /\ UNCHANGED <<doc_i, log>>
       \/ /\ log' = Append(log, doc_i)
          /\ doc_i' = AfterFailure(doc_i)
          /\ UNCHANGED <<clock, stamp, step>>
    /\ UNCHANGED <<driver, batch, written, pdf_calls, saved,
                   docVars, numVars, gptVars, qaVars>>

\* The __dict__ of a member of the Enum RequirementType.  The members are
\* modelled by their values.
MemberDict(member) ==
    [keys |-> <<"_value_", "_name_", "__objclass__", "_sort_order_">>,
     val |-> [k \in {"_value_", "_name_", "__objclass__", "_sort_order_"} |->
                CASE k = "_value_" -> member
                  [] k = "_name_" ->
                       (CASE member = MANDATORY -> "MANDATORY"
                          [] member = RECOMMENDED -> "RECOMMENDED"
                          [] member = CONDITIONAL -> "CONDITIONAL")
                  [] k = "__objclass__" -> "RequirementType"
                  [] k = "_sort_order_" ->
                       (CHOOSE j \in 1..Len(RequirementTypes) :
                          RequirementTypes[j] = member) - 1]]

\* req.type.value
MemberValue(member) == MemberDict(member).val["_value_"]

\* k.startswith('_'), for the attribute names of the objects serialised.
StartsWithUnderscore(k) ==
    k \in {"_value_", "_name_", "__objclass__", "_sort_order_"}

\* {k: v for k, v in obj.__dict__.items() if not k.startswith('_')}
PublicItems(d) ==
    LET ks == SelectSeq(d.keys, LAMBDA k : ~StartsWithUnderscore(k))
    IN [keys |-> ks, val |-> [k \in {ks[j] : j \in DOMAIN ks} |-> d.val[k]]]

\* DocumentEncoder.default on an object with a __dict__.
Default(type, data) == [_type |-> type, data |-> data]

\* A RequirementType member under DocumentEncoder: not a str or a number,
\* so default() is asked, and it has a __dict__.
EncodeMember(member) == Default("RequirementType", PublicItems(MemberDict(member)))

\* A Requirement under DocumentEncoder (context is set by
\* _process_requirements).
EncodeRequirement(r) ==
    Default("Requirement",
            [text_es |-> r.text_es, type |-> EncodeMember(r.type),
             conditions |-> r.conditions,
             related_formulas |-> r.related_formulas,
             related_tables |-> r.related_tables, context |-> r.context])

\* A Formula under DocumentEncoder.
EncodeFormula(f) ==
    Default("Formula",
            [id |-> f.id, expression |-> f.expression,
             context_es |-> f.context_es, section_id |-> f.section_id,
             referenced_by |-> f.referenced_by])

\* A Table under DocumentEncoder.
EncodeTable(t) ==
    Default("Table",
            [id |-> t.id, caption_es |-> t.caption_es, headers |-> t.headers,
             data |-> t.data, section_id |-> t.section_id,
             referenced_by |-> t.referenced_by])

\* A Section under DocumentEncoder: its lists of objects are lists of
\* encoded objects.
EncodeSection(s) ==
    Default("Section",
            [id |-> s.id, title_es |-> s.title_es, content_es |-> s.content_es,
             level |-> s.level, parent_section |-> s.parent_section,
             subsections |-> s.subsections,
             formulas |-> [j \in DOMAIN s.formulas |->
                             EncodeFormula(formula_objs[s.formulas[j]])],
             tables |-> [j \in DOMAIN s.tables |->
                           EncodeTable(table_objs[s.tables[j]])],
             requirements |-> [j \in DOMAIN s.requirements |->
                                 EncodeRequirement(s.requirements[j])],
             references |-> s.references,
             referenced_by |-> s.referenced_by])

\* json.dump(document, f, cls=DocumentEncoder, ...): the JSON tree.  A dict
\* of objects is a JSON object with the same keys in the same order.
EncodeDocument(d) ==
    Default("Document",
            [filename |-> d.filename,
             sections |->
               [keys |-> d.sections.keys,
                val |-> [k \in DOMAIN d.sections.val |->
                           EncodeSection(section_objs[d.sections.val[k]])]],
             formulas |->
               [keys |-> d.formulas.keys,
                val |-> [k \in DOMAIN d.formulas.val |->
                           EncodeFormula(formula_objs[d.formulas.val[k]])]],
             tables |->
               [keys |-> d.tables.keys,
                val |-> [k \in DOMAIN d.tables.val |->
                           EncodeTable(table_objs[d.tables.val[k]])]]])

\* Mutant of Bump: a level seen again is counted once.
BumpOnce(counts, k) == (k :> 1) @@ counts

\* counts[k] = counts.get(k, 0) + 1
Bump(counts, k) ==
    (k :> (IF k \in DOMAIN counts THEN counts[k] ELSE 0) + 1) @@ counts

\* Mutant of InitialTypeCounts: the counters start at 1.
InitialTypeCountsOne(types) == [t \in {types[j] : j \in DOMAIN types} |-> 1]

\* 'requirement_types': {'mandatory': 0, 'recommended': 0, 'conditional': 0}
InitialTypeCounts(types) == [t \in {types[j] : j \in DOMAIN types} |-> 0]

\* for req in section.requirements:
\*     stats['requirement_types'][req.type.value] += 1
RECURSIVE CountTypes(_, _, _)
CountTypes(reqs, j, counts) ==
    IF j > Len(reqs) THEN counts
    ELSE CountTypes(reqs, j + 1,
                    [counts EXCEPT ![MemberValue(reqs[j].type)] = @ + 1])

\* The loop of save_processed_data over document.sections.values().
RECURSIVE CountSections(_, _, _)
CountSections(secs, j, stats) ==
    IF j > Len(secs) THEN stats
    ELSE LET section == section_objs[secs[j]]
         IN CountSections(secs, j + 1,
              [stats EXCEPT
                 !.section_levels = Bump(@, section.level),
                 !.requirement_types = CountTypes(section.requirements, 1, @)])

\* The stats dict of save_processed_data.
Statistics(d) ==
    CountSections(DictValues(d.sections), 1,
      [filename |-> d.filename,
       total_sections |-> Len(d.sections.keys),
       total_formulas |-> Len(d.formulas.keys),
       total_tables |-> Len(d.tables.keys),
       section_levels |-> [l \in {} |-> 0],
       requirement_types |-> InitialTypeCounts(RequirementTypes)])

\* json.dump(stats, f, ...): the int keys of section_levels become strings.
EncodeStatistics(stats) ==
    [stats EXCEPT
       !.section_levels =
          [k \in {Str(l) : l \in DOMAIN @} |->
             @[CHOOSE l \in DOMAIN @ : Str(l) = k]]]

\* One file of an iteration: the path is opened for writing and written;
\* a write that raises leaves a part of the content.  On success the
\* iteration goes on with the step next, which is "process" after the last
\* file; an exception ends the iteration in the except clause.
WriteFile(path, content, next) ==
    \E outcome \in WriteOutcomes :
      /\ written' = IF outcome = "open_fails" THEN written
                    ELSE Append(written,
                                [doc |-> doc_i, path |-> path,
                                 content |-> IF outcome = "ok" THEN content
                                             ELSE [kind |-> "partial"]])
      /\ IF outcome = "ok"
         THEN /\ step' = next
              /\ doc_i' = IF next = "process" THEN doc_i + 1 ELSE doc_i
              /\ saved' = IF next = "process" THEN Append(saved, doc_i) ELSE saved
              /\ UNCHANGED log
         ELSE /\ step' = "process"
              /\ doc_i' = AfterFailure(doc_i)
              /\ log' = Append(log, doc_i)
              /\ UNCHANGED saved

\* with open(json_path, 'w') as f: json.dump(document, f, ...)
SaveJson ==
    /\ driver = "word"
    /\ step = "json"
    /\ WriteFile(WordPath(batch[doc_i], stamp, "json"),
                 [kind |-> "tree", value |-> EncodeDocument(current_document)],
                 "pickle")
    /\ UNCHANGED <<driver, batch, clock, stamp, pdf_calls,
                   docVars, numVars, gptVars, qaVars>>

\* with open(pickle_path, 'wb') as f: pickle.dump(document, f)
SavePickle ==
    /\ driver = "word"
    /\ step = "pickle"
    /\ WriteFile(WordPath(batch[doc_i], stamp, "pkl"), [kind |-> "pickle"],
                 "stats")
    /\ UNCHANGED <<driver, batch, clock, stamp, pdf_calls,
                   docVars, numVars, gptVars, qaVars>>

\* with open(stats_path, 'w') as f: json.dump(stats, f, ...); the end of
\* the iteration of main().
SaveStats ==
    /\ driver = "word"
    /\ step = "stats"
    /\ WriteFile(WordPath(batch[doc_i], stamp, "stats"),
                 [kind |-> "stats",
                  value |-> EncodeStatistics(Statistics(current_document))],
                 "process")
    /\ UNCHANGED <<driver, batch, clock, stamp, pdf_calls,
                   docVars, numVars, gptVars, qaVars>>

\* main() of process_pdfs.py up to its loop: the output directory, a new
\* PDFProcessor and the .pdf files of the listing.
PdfMain(batches) ==
    /\ driver = "none"
    /\ driver' = "pdf"
    /\ \E b \in batches : batch' = b
    /\ doc_i' = 1
    /\ step' = "process"
    /\ UNCHANGED <<clock, stamp, written, pdf_calls, log, saved,
                   docVars, numVars, gptVars, qaVars>>

\* result = processor.process_pdf(pdf_path): it returns or raises; what it
\* extracts is not modelled.
ProcessPdf ==
    /\ driver = "pdf"
    /\ step = "process"
    /\ doc_i <= Len(batch)
    /\ pdf_calls' = Append(pdf_calls, doc_i)
    /\ \/ /\ step' = "json"
          /\ UNCHANGED <<doc_i, log>>
       \/ /\ log' = Append(log, doc_i)
          /\ doc_i' = AfterFailure(doc_i)
          /\ UNCHANGED step
    /\ UNCHANGED <<driver, batch, clock, stamp, written, saved,
                   docVars, numVars, gptVars, qaVars>>

\* processor.save_to_json(result, json_path)
PdfSaveJson ==
    /\ driver = "pdf"
    /\ step = "json"
    /\ WriteFile(PdfPath(batch[doc_i], "json"), [kind |-> "result"], "md")
    /\ UNCHANGED <<driver, batch, clock, stamp, pdf_calls,
                   docVars, numVars, gptVars, qaVars>>

\* processor.save_to_markdown(result, md_path); the end of the iteration.
PdfSaveMarkdown ==
    /\ driver = "pdf"
    /\ step = "md"
    /\ WriteFile(PdfPath(batch[doc_i], "md"), [kind |-> "markdown"], "process")
    /\ UNCHANGED <<driver, batch, clock, stamp, pdf_calls,
                   docVars, numVars, gptVars, qaVars>>

-----------------------------------------------------------------------------
(* GPTTeacher: the prompt templates and format_prompt *)

MaxPrompts == 2

Languages == {"es", "zh"}

\* TerminologyTranslator.TERMS, two terms of it: the Spanish terms and, at
\* the same positions, the Chinese ones ("liang" and "hezai" stand for the
\* Chinese words).
TermsOf(lang) ==
    IF lang = "es" THEN <<"viga", "carga">> ELSE <<"liang", "hezai">>

\* _translate_technical_terms(text, "es", lang): every Spanish term of the
\* text is replaced by the term of lang at the same key.
TranslateTechnicalTerms(text, lang) ==
    [j \in DOMAIN text |->
       IF \E k \in DOMAIN TermsOf("es") : TermsOf("es")[k] = text[j]
       THEN TermsOf(lang)[CHOOSE k \in DOMAIN TermsOf("es") :
                            TermsOf("es")[k] = text[j]]
       ELSE text[j]]

\* self.prompts as __init__ makes it; the fixed text of a template is one
\* token a piece.
InitialPrompts ==
    [lang \in Languages |->
       [intro |-> <<<<lang, "intro 1">>, <<lang, "intro 2">>,
                    <<NL, lang, "intro 3", NL>>>>,
        sections_header |-> <<NL, lang, "sections_header">>,
        formulas_header |-> <<NL, lang, "formulas_header">>,
        requirements_header |-> <<NL, lang, "requirements_header">>,
        question_prefix |-> <<NL, lang, "question_prefix">>,
        answer_instruction |-> <<NL, lang, "answer_instruction">>]]

\* template["section_format"].format(section_id=..., title=..., content=...)
SectionFormat(lang, section_id, title, content) ==
    <<lang, "section">> \o section_id \o <<":", NL, "title">> \o title
      \o <<NL, "content">> \o content \o <<NL>>

\* template["formula_format"].format(formula_id=..., expression=..., context=...)
FormulaFormat(lang, formula_id, expression, context) ==
    <<lang, "formula">> \o formula_id \o <<":", NL, "expression">> \o expression
      \o <<NL, "context">> \o context \o <<NL>>

\* template["requirement_format"].format(text=...)
RequirementFormat(lang, text) == <<"-", " ">> \o text \o <<NL>>

\* The questions and the contexts format_prompt is called with: each of the
\* three lists of a context is empty or has one entry (a formula without
\* variables).
Questions == {<<"q">>, <<"viga">>}
Contexts ==
    [relevant_sections :
       {<<>>, <<[section_id |-> <<"1">>, title |-> <<"T">>,
                 content |-> <<"viga">>]>>},
     relevant_formulas :
       {<<>>, <<[formula_id |-> <<"1">>, expression |-> <<"x">>,
                 context |-> <<"carga">>]>>},
     relevant_requirements :
       {<<>>, <<[text |-> <<"x", " ", "debe", " ", "x">>]>>}]

\* The parts format_prompt appends for the sections, the formulas and the
\* requirements of a context.
SectionParts(template, lang, context) ==
    IF context.relevant_sections = <<>> THEN <<>>
    ELSE <<template.sections_header>> \o
         [j \in DOMAIN context.relevant_sections |->
            LET section == context.relevant_sections[j]
            IN SectionFormat(lang, section.section_id,
                             TranslateTechnicalTerms(section.title, lang),
                             TranslateTechnicalTerms(section.content, lang))]
FormulaParts(template, lang, context) ==
    IF context.relevant_formulas = <<>> THEN <<>>
    ELSE <<template.formulas_header>> \o
         [j \in DOMAIN context.relevant_formulas |->
            LET formula == context.relevant_formulas[j]
            IN FormulaFormat(lang, formula.formula_id, formula.expression,
                             TranslateTechnicalTerms(formula.context, lang))]
RequirementParts(template, lang, context) ==
    IF context.relevant_requirements = <<>> THEN <<>>
    ELSE <<template.requirements_header>> \o
         [j \in DOMAIN context.relevant_requirements |->
            RequirementFormat(lang,
              TranslateTechnicalTerms(context.relevant_requirements[j].text,
                                      lang))]

\* prompt = template["intro"]: the list the parts are appended to.
PromptList(template) == template.intro

\* The list prompt at the end of format_prompt.
PromptParts(template, lang, question, context) ==
    PromptList(template)
      \o SectionParts(template, lang, context)
      \o FormulaParts(template, lang, context)
      \o RequirementParts(template, lang, context)
      \o <<template.question_prefix \o question, template.answer_instruction>>

GptInit ==
    /\ language = "none"
    /\ prompts = InitialPrompts
    /\ prompt_log = <<>>

\* GPTTeacher(language=lang)
NewTeacher ==
    /\ language = "none"
    /\ \E lang \in Languages : language' = lang
    /\ prompts' = InitialPrompts
    /\ UNCHANGED <<prompt_log, docVars, numVars, drvVars, qaVars>>

\* format_prompt(question, context): prompt is the list template["intro"]
\* itself, so what is appended to prompt is appended to the template.
FormatPrompt ==
    /\ language # "none"
    /\ Len(prompt_log) < MaxPrompts
    /\ \E question \in Questions, context \in Contexts :
         LET prompt == PromptParts(prompts[language], language, question,
                                   context)
         IN /\ prompts' = [prompts EXCEPT ![language].intro = prompt]
            /\ prompt_log' =
                 Append(prompt_log,
                        [question |-> question, context |-> context,
                         returned |-> JoinNL(prompt)])
    /\ UNCHANGED <<language, docVars, numVars, drvVars, qaVars>>

-----------------------------------------------------------------------------
(* BuildingCodeQA: load_documents *)

\* The files of the data directory: the paths written, each with the
\* content and the time of the last write to it.
Directory ==
    {written[j].path : j \in DOMAIN written}
LastWrite(path) ==
    Max({j \in DOMAIN written : written[j].path = path})

\* data_dir.glob(f"{stem}*.json"): the names that start with the stem and
\* end in .json, which the JSON tree and the statistics file both do.
Glob(stem) ==
    {path \in Directory :
       Len(path) = 3 /\ path[1] = stem /\ path[3] \in {"json", "stats"}}

\* max(files, key=lambda x: x.stat().st_mtime)
Latest(files) ==
    CHOOSE path \in files :
      \A other \in files : LastWrite(other) <= LastWrite(path)

\* latest.name.endswith('_stats.json')
IsStatsName(path) == path[3] = "stats"

\* json.load(f) raises on a file that holds a part of a JSON text.
JsonLoadRaises(path) == written[LastWrite(path)].content.kind = "partial"

\* The stems load_documents looks for that have a file to load.
Loadable ==
    {stem \in Stems : Glob(stem) # {} /\ ~IsStatsName(Latest(Glob(stem)))}

QaInit == documents = [outcome |-> "none"]

\* BuildingCodeQA(): load_documents on the data directory as it is.  at is
\* history: the number of writes made before.
LoadDocuments ==
    /\ driver = "word"
    /\ documents.outcome = "none"
    /\ documents' =
         IF \E stem \in Loadable : JsonLoadRaises(Latest(Glob(stem)))
         THEN [outcome |-> "raised", at |-> Len(written)]
         ELSE [outcome |-> "loaded", at |-> Len(written),
               entries |-> [stem \in Loadable |->
                              written[LastWrite(Latest(Glob(stem)))].content]]
    /\ UNCHANGED <<docVars, numVars, drvVars, gptVars>>

-----------------------------------------------------------------------------
(* Specifications *)

vars == <<docVars, numVars, drvVars, gptVars, qaVars>>

Init == DocInit /\ NumInit /\ DrvInit /\ GptInit /\ QaInit

\* A DocumentProcessor processes one document.
Next ==
    \/ LoadDocument(Docs, 1)
    \/ Passes

Spec == Init /\ [][Next]_vars

\* main(): one DocumentProcessor processes the documents of a batch in turn.
NextBatch ==
    \/ LoadDocument(BatchDocs, MaxDocs)
    \/ Passes

SpecBatch == Init /\ [][NextBatch]_vars

\* A NumberingProcessor processes one text.
NextNum ==
    \/ ProcessNumbering(Texts, 1)
    \/ NumberingStep
    \/ NumberingReturn

SpecNum == Init /\ [][NextNum]_vars

\* One run of either batch driver.
NextDriver ==
    \/ Main(Batches)
    \/ ProcessDocument(DriverDocs)
    \/ Passes
    \/ Raise
    \/ SaveStart
    \/ SaveJson
    \/ SavePickle
    \/ SaveStats
    \/ PdfMain(Batches)
    \/ ProcessPdf
    \/ PdfSaveJson
    \/ PdfSaveMarkdown

SpecDriver == Init /\ [][NextDriver]_vars

-----------------------------------------------------------------------------
(* Properties *)

Range(f) == {f[x] : x \in DOMAIN f}
Occurrences(f, v) == Cardinality({x \in DOMAIN f : f[x] = v})

\* The Section objects stored in the sections of a Document.
Stored(doc) == Range(doc.sections.val)

\* The paragraph at position p of a stream is a section header.
IsHeader(stream, p) == SectionMatch(Strip(stream[p])).matched

\* The position of the nearest header at or before position p, or 0.
CurrentHeader(stream, p) ==
    LET hs == {h \in 1..p : IsHeader(stream, h)}
    IN IF hs = {} THEN 0 ELSE Max(hs)

\* The Section object made from the header at position h of document d.
IsSectionOf(s, d, h) ==
    h # 0 /\ section_objs[s].doc = d /\ section_objs[s].para = h

\* The section pass of the running document is over.
SectionsDone == pc \notin {"idle", "sections"}

\* The table pass of the running document is over.
TablesDone == pc \in {"requirements", "references", "formula_references"}

\* C1: every Requirement is in the requirements of the section whose header
\* is the nearest header before the paragraph it was made from, and in the
\* requirements of no other section.
C1_RequirementInCurrentSection ==
    \A s \in DOMAIN section_objs :
      \A j \in DOMAIN section_objs[s].requirements :
        LET r == section_objs[s].requirements[j]
        IN IsSectionOf(s, r.doc, CurrentHeader(inputs[r.doc], r.para))

\* C2: a paragraph yields at most one Requirement, and its type is the first
\* of MANDATORY, RECOMMENDED, CONDITIONAL that has a matching pattern.
C2_FirstGroupWins ==
    \A s, t \in DOMAIN section_objs :
      \A j \in DOMAIN section_objs[s].requirements :
        \A k \in DOMAIN section_objs[t].requirements :
          LET r == section_objs[s].requirements[j]
              q == section_objs[t].requirements[k]
          IN /\ (r.doc = q.doc /\ r.para = q.para) => (s = t /\ j = k)
             /\ r.type = RequirementTypes[
                           Min({n \in 1..3 :
                                  GroupMatches(RequirementTypes[n], r.text_es)})]

\* C3: the section_id of every Formula is the id of the section whose header
\* is the nearest header before the paragraph of its label (empty when there
\* is none), and the Formula is in the formulas of that section only.
C3_FormulaInCurrentSection ==
    \A f \in DOMAIN formula_objs :
      LET formula == formula_objs[f]
          stream == inputs[formula.doc]
          h == CurrentHeader(stream, formula.para)
      IN /\ formula.section_id =
              IF h = 0 THEN <<>> ELSE SectionMatch(Strip(stream[h])).number
         /\ \A s \in DOMAIN section_objs :
              f \in Range(section_objs[s].formulas)
                <=> IsSectionOf(s, formula.doc, h)

\* C4: after the section pass, for the sections A and B stored in the
\* Document, B.parent_section = A.id exactly when B.id is in A.subsections.
C4_ParentIffSubsection ==
    SectionsDone =>
      \A a, b \in Stored(current_document) :
        (section_objs[b].parent_section = section_objs[a].id)
          <=> (section_objs[b].id \in Range(section_objs[a].subsections))

\* The line at position i of the running call starts with a number.
IsNumbered(i) ==
    Strip(lines[i]) # <<>> /\ NumberMatch(Strip(lines[i])).matched

\* The nodes made from line i of the running call.
NodesOfLine(i) ==
    {n \in DOMAIN node_objs :
       node_objs[n].call = calls /\ node_objs[n].line = i}

\* The numbered lines before line i whose level is less than level.
Shallower(i, level) ==
    {j \in 1..(i - 1) :
       IsNumbered(j) /\ GetLevel(NumberMatch(Strip(lines[j])).number) < level}

\* C5: within one call, every numbered line read so far has one node; its
\* parent is the node of the nearest numbered line before it that has a lower
\* level, and it is a root exactly when there is no such line.
C5_ParentIsNearestShallower ==
    \A i \in 1..Len(lines) :
      (IsNumbered(i) /\ i < line_idx) =>
        /\ Cardinality(NodesOfLine(i)) = 1
        /\ \A n \in NodesOfLine(i) :
             LET node == node_objs[n]
                 up == Shallower(i, node.level)
             IN IF up = {}
                THEN node.parent = 0 /\ n \in Range(root_nodes)
                ELSE /\ node.parent \in NodesOfLine(Max(up))
                     /\ n \in Range(node_objs[node.parent].children)
                     /\ n \notin Range(root_nodes)

\* Scenario 3 of the specification: after 1, 1.1, 1.1.1 the node of 1.2 is
\* a child of the node of 1.
C5_Witness ==
    /\ num_pc = "idle"
    /\ lines = <<LineOne, LineOneOne, LineOneOneOne, LineOneTwo>>
    /\ Len(node_objs) = 4
    /\ node_objs[4].parent = 1
    /\ node_objs[1].children = <<2, 4>>

\* No step changes a Section or Formula of a Document returned earlier.
KeepsReturned ==
    \A d \in 1..Len(returned) :
      /\ \A o \in Stored(returned[d]) : section_objs'[o] = section_objs[o]
      /\ \A f \in Range(returned[d].formulas.val) :
           formula_objs'[f] = formula_objs[f]

\* The section_id of every Formula and Table of a Document is empty or a key
\* of the sections of that Document.
OwnSectionIds(doc) ==
    /\ \A f \in Range(doc.formulas.val) :
         \/ formula_objs[f].section_id = <<>>
         \/ DictHas(doc.sections, formula_objs[f].section_id)
    /\ \A t \in Range(doc.tables.val) :
         \/ table_objs[t].section_id = <<>>
         \/ DictHas(doc.sections, table_objs[t].section_id)

\* C6: when one DocumentProcessor processes several documents, no step
\* changes a Section, Formula or Requirement of a Document returned earlier,
\* and every Document returned has section ids of its own sections only.
C6_DocumentsIsolated ==
    [][/\ KeepsReturned
       /\ \A d \in 1..Len(returned') : OwnSectionIds(returned[d])']_vars

\* C7: the referenced_by of a Formula holds a section id only if it is not
\* the section_id of the Formula and the content of that section cites the
\* id of the Formula.
C7_ReferencedByOtherSections ==
    \A f \in DOMAIN formula_objs :
      \A j \in DOMAIN formula_objs[f].referenced_by :
        LET formula == formula_objs[f]
            id == formula.referenced_by[j]
        IN /\ id # formula.section_id
           /\ DictHas(current_document.sections, id)
           /\ CitesFormula(
                section_objs[current_document.sections.val[id]].content_es,
                formula.id)

\* The positions, in order, of the grids that have rows.
GridsWithRows ==
    SelectSeq([i \in 1..Len(tables) |-> i], LAMBDA i : tables[i] # <<>>)

\* C8 as claimed: after the table pass the ids of the tables stored are
\* Table_1 .. Table_k in order, k being the number of tables stored.
C8_TableIdsWithoutGaps ==
    TablesDone =>
      current_document.tables.keys =
        [j \in 1..Len(current_document.tables.keys) |-> <<"Table_">> \o Str(j)]

\* C8 as amended: after the table pass the ids of the tables stored are, in
\* order, Table_i for the positions i of the grids that have rows, every
\* grid of the document being counted.
C8_TableIdsArePositions ==
    TablesDone =>
      current_document.tables.keys =
        [j \in 1..Len(GridsWithRows) |-> <<"Table_">> \o Str(GridsWithRows[j])]

\* A grid without rows before a grid with rows: the table stored is Table_2.
C8_Witness ==
    /\ TablesDone
    /\ tables = <<<<>>, <<HeaderRow>>>>
    /\ current_document.tables.keys = <<<<"Table_", "2">>>>

\* The stripped non-empty paragraphs between the header of a section and
\* the next header of its stream, joined by newlines.
SectionBody(s) ==
    LET stream == inputs[section_objs[s].doc]
        h == section_objs[s].para
        later == {k \in (h + 1)..Len(stream) : IsHeader(stream, k)}
        last == IF later = {} THEN Len(stream) ELSE Min(later) - 1
    IN JoinNL(SelectSeq([k \in 1..(last - h) |-> Strip(stream[h + k])],
                        LAMBDA t : t # <<>>))

\* The section pass has read the header after that of section s, or the end
\* of the stream of s.
Closed(s) ==
    \/ section_objs[s].doc < DocNo
    \/ pc # "sections"
    \/ \E k \in (section_objs[s].para + 1)..(idx - 1) : IsHeader(paragraphs, k)

\* C9: once the next header or the end of the stream has been read, the
\* content_es of a section is the newline-join of the non-empty non-header
\* paragraphs between its header and the next one, and stays so.
C9_ContentIsSectionBody ==
    \A s \in DOMAIN section_objs :
      Closed(s) => section_objs[s].content_es = SectionBody(s)

\* C10: for the sections A and B of the Document, B.id occurs in
\* A.references as often as A.id occurs in B.referenced_by.
C10_ReferencesSymmetric ==
    DocNo > 0 =>
      \A a, b \in Stored(current_document) :
        Occurrences(section_objs[a].references, section_objs[b].id)
          = Occurrences(section_objs[b].referenced_by, section_objs[a].id)

\* The section pass of the resolver has linked a section to another one
\* that it cites.
C10_Witness ==
    /\ pc = "formula_references"
    /\ \E a, b \in Stored(current_document) :
         /\ a # b
         /\ section_objs[b].id \in Range(section_objs[a].references)
         /\ section_objs[a].id \in Range(section_objs[b].referenced_by)

\* The Document with number d: returned already, or the running one.
DocumentOf(d) == IF d <= Len(returned) THEN returned[d] ELSE current_document

\* C11: every id in the references or referenced_by of a section, and every
\* id in the referenced_by of a formula, is a key of the sections of the
\* Document of that section or formula.
C11_NoDanglingReferences ==
    /\ \A s \in DOMAIN section_objs :
         \A id \in Range(section_objs[s].references)
                     \cup Range(section_objs[s].referenced_by) :
           DictHas(DocumentOf(section_objs[s].doc).sections, id)
    /\ \A f \in DOMAIN formula_objs :
         \A id \in Range(formula_objs[f].referenced_by) :
           DictHas(DocumentOf(formula_objs[f].doc).sections, id)

\* The resolver has gone over a section whose content cites an id that is
\* no key of the sections, and the Document has been returned.
C11_Witness ==
    /\ pc = "idle"
    /\ Len(returned) = 1
    /\ \E s \in Stored(returned[1]) :
         /\ \E r \in Range(SectionRefs(section_objs[s].content_es, 1)) :
              ~DictHas(returned[1].sections, r)
         /\ section_objs[s].references = <<>>

\* The content holds a citation phrase of the formula id: one of the words
\* ecuación, fórmula, expresión, then white space, then the id in brackets.
HasCitation(content, id) ==
    \E p \in 1..Len(content) :
      /\ content[p] \in {"ecuacion", "formula", "expresion"}
      /\ LET b == p + 1 + RunLen(content, p + 1, WS)
         IN /\ b + Len(id) + 1 <= Len(content)
            /\ content[b] = "("
            /\ SubSeq(content, b + 1, b + Len(id)) = id
            /\ content[b + Len(id) + 1] = ")"

C13_ChildListsIndexTheMaps ==
    \A d \in 1..Len(returned) :
      \A s \in Stored(returned[d]) :
        /\ \A f \in Range(section_objs[s].formulas) :
             /\ DictHas(returned[d].formulas, formula_objs[f].id)
             /\ returned[d].formulas.val[formula_objs[f].id] = f
        /\ \A t \in Range(section_objs[s].tables) :
             /\ DictHas(returned[d].tables, table_objs[t].id)
             /\ returned[d].tables.val[table_objs[t].id] = t
        /\ \A id \in Range(section_objs[s].subsections) :
             DictHas(returned[d].sections, id)

\* The number of '.' and '-' in a number.
Separators(number) ==
    Cardinality({j \in DOMAIN number : number[j] \in {".", "-"}})

\* C14: the level of every node is the number of separators of its number
\* plus 1, and the level of every child is greater than that of its parent.
C14_LevelsIncrease ==
    \A n \in DOMAIN node_objs :
      /\ node_objs[n].level = Separators(node_objs[n].number) + 1
      /\ node_objs[n].parent # 0 =>
           node_objs[node_objs[n].parent].level < node_objs[n].level
      /\ \A c \in Range(node_objs[n].children) :
           node_objs[c].level > node_objs[n].level

\* The forest holds a path of three nodes and a child numbered with '-'.
C14_Witness ==
    /\ num_pc = "idle"
    /\ \E n \in DOMAIN node_objs :
         /\ node_objs[n].parent # 0
         /\ node_objs[node_objs[n].parent].parent # 0
    /\ \E n \in DOMAIN node_objs :
         /\ "-" \in Range(node_objs[n].number)
         /\ node_objs[n].parent # 0

\* Node n is the first node of its call.
FirstOfCall(n) == n = 1 \/ node_objs[n - 1].call # node_objs[n].call

\* The numbered lines of the call of node n, up to the line of n, skip no
\* level: the first has level 1 and each later one is at most one level
\* deeper than the one before it.
WellFormedUpTo(n) ==
    \A k \in 1..n :
      node_objs[k].call = node_objs[n].call =>
        IF FirstOfCall(k)
        THEN node_objs[k].level = 1
        ELSE node_objs[k].level <= node_objs[k - 1].level + 1

\* C15: when the numbered lines up to that of a node skip no level, the
\* level of the node is that of its parent plus 1.
C15_WellFormedEdges ==
    \A n \in DOMAIN node_objs :
      (node_objs[n].parent # 0 /\ WellFormedUpTo(n)) =>
        node_objs[n].level = node_objs[node_objs[n].parent].level + 1

\* A well-formed text with a node of level 3 and a node attached after the
\* path was popped.
C15_Witness ==
    /\ num_pc = "idle"
    /\ node_objs # <<>>
    /\ WellFormedUpTo(Len(node_objs))
    /\ \E n \in DOMAIN node_objs : node_objs[n].level = 3
    /\ \E n \in DOMAIN node_objs :
         node_objs[n].parent # 0 /\ node_objs[n].parent # n - 1

\* The lines of the call that the loop has read.
LinesRead == IF num_pc = "running" THEN line_idx - 1 ELSE Len(lines)

\* Line i, stripped, starts with a digit.
StartsWithNumber(i) ==
    Strip(lines[i]) # <<>> /\ Head(Strip(lines[i])) \in Digits

\* One node for each line read that starts with a number and none for any
\* other line; a node more than one level deeper than the node before it is
\* a child of that node.
OneNodePerNumberedLine ==
    /\ \A i \in 1..LinesRead :
         Cardinality(NodesOfLine(i)) = IF StartsWithNumber(i) THEN 1 ELSE 0
    /\ \A n \in DOMAIN node_objs :
         (/\ ~FirstOfCall(n)
          /\ node_objs[n].level > node_objs[n - 1].level + 1)
           => node_objs[n].parent = n - 1

\* C16: process_numbering returns on every text (while it runs, the loop
\* is at one of the lines or just past the last, every step uses up one line
\* or returns, and every call begun and not running has returned), with one
\* node for each line that starts with a number and no other node, and a
\* line that skips levels is a child of the nearest node of lower level.
C16_SkippedLevelsAccepted ==
    /\ []OneNodePerNumberedLine
    /\ [](IF num_pc = "running"
          THEN line_idx \in 1..(Len(lines) + 1) /\ Len(results) = calls - 1
          ELSE Len(results) = calls)
    /\ [][num_pc = "running" =>
            \/ /\ line_idx <= Len(lines)
               /\ line_idx' = line_idx + 1
               /\ num_pc' = "running"
               /\ lines' = lines
            \/ /\ line_idx > Len(lines)
               /\ num_pc' = "idle"
               /\ Len(results') = Len(results) + 1]_vars

\* 1.1.1 directly after 1: two nodes, the second a child of the first.
C16_Witness ==
    /\ num_pc = "idle"
    /\ lines = <<LineOne, LineOneOneOne>>
    /\ Len(node_objs) = 2
    /\ node_objs[2].parent = 1
    /\ results = <<root_nodes>>

\* The section pass has read no header of the running document yet: the
\* paragraphs read so far come before the first header.
BeforeFirstHeader ==
    pc = "sections" /\ \A k \in 1..(idx - 1) : ~IsHeader(paragraphs, k)

\* C17: the paragraphs before the first header of a document are dropped:
\* the steps of the section pass up to and including the one that reads the
\* first header (or the end of a stream without header) change the
\* content_es of no section, and the header starts with an empty buffer.
C17_PreambleDropped ==
    [][BeforeFirstHeader =>
         /\ \A s \in DOMAIN section_objs :
              section_objs'[s].content_es = section_objs[s].content_es
         /\ Len(section_objs') > Len(section_objs) => section_content' = <<>>]_vars

\* The loop of the driver is over.
Finished == driver # "none" /\ doc_i > Len(batch)

\* The kinds of the files opened for writing in the iteration of document k.
Artifacts(k) ==
    {written[j].path[Len(written[j].path)] :
       j \in {x \in DOMAIN written : written[x].doc = k}}

\* The output artifacts of a document: the JSON tree and the statistics of
\* the Word pipeline, the JSON and the Markdown file of the PDF pipeline.
Outputs == IF driver = "word" THEN {"json", "stats"} ELSE {"json", "md"}

\* C18: when the driver has finished, every document of the batch has all
\* of its output artifacts or none of them.
C18_AllOrNothing ==
    Finished =>
      \A k \in 1..Len(batch) :
        Artifacts(k) \cap Outputs = {} \/ Outputs \subseteq Artifacts(k)

\* C19: two calls of save_processed_data never write the same path: files
\* written for different documents of the batch have different paths.
C19_NeverOverwritten ==
    driver = "word" =>
      \A i, j \in DOMAIN written :
        written[i].doc # written[j].doc => written[i].path # written[j].path

\* The number of calls of process_document or process_pdf so far.
Attempts == IF driver = "word" THEN Len(inputs) ELSE Len(pdf_calls)

\* Every file of a document: with the pickle file in the Word pipeline.
AllFiles == IF driver = "word" THEN {"json", "pkl", "stats"} ELSE {"json", "md"}

\* C20: the documents are attempted once each, in the order of the batch,
\* whatever has failed: the loop is at the document attempted last or at the
\* one after it; every document the loop has left was attempted and either
\* had its exception caught and logged, once, or was processed and saved
\* with all its files; no other document is logged or saved.
C20_FailuresDoNotStopTheBatch ==
    driver # "none" =>
      /\ Attempts \in {doc_i - 1, doc_i}
      /\ Attempts <= Len(batch)
      /\ driver = "pdf" => pdf_calls = [k \in 1..Len(pdf_calls) |-> k]
      /\ \A k \in 1..Len(batch) :
           /\ Occurrences(log, k) + Occurrences(saved, k)
                = IF k < doc_i THEN 1 ELSE 0
           /\ k \in Range(saved) =>
                /\ Artifacts(k) = AllFiles
                /\ driver = "word" =>
                     \E d \in DOMAIN returned : returned[d].filename = k

\* The first document of a batch of the Word driver has failed and the
\* second has been processed and saved.
C20_Witness ==
    /\ Finished
    /\ driver = "word"
    /\ log = <<1>>
    /\ saved = <<2>>
    /\ Len(returned) = 1



\* One GPTTeacher formats up to MaxPrompts prompts.
NextTeacher ==
    \/ NewTeacher
    \/ FormatPrompt

SpecTeacher == Init /\ [][NextTeacher]_vars

\* main() of document_processor.py and, at any moment of it, a
\* BuildingCodeQA made on the data directory.
NextQA ==
    \/ Main(Batches)
    \/ ProcessDocument(DriverDocs)
    \/ Passes
    \/ Raise
    \/ SaveStart
    \/ SaveJson
    \/ SavePickle
    \/ SaveStats
    \/ LoadDocuments

SpecQA == Init /\ [][NextQA]_vars

-----------------------------------------------------------------------------
\* One NumberingProcessor used for several texts, as PDFProcessor and
\* BuildingCodeProcessor use theirs for several documents.

MaxCalls == 2

MaxCallLines == 2

\* The texts of up to MaxCallLines lines given to the repeated calls.
CallTexts ==
    {JoinNL(ls) :
       ls \in SeqsUpTo({LineOne, LineOneOne, LineText}, MaxCallLines) \ {<<>>}}

NextCalls ==
    \/ ProcessNumbering(CallTexts, MaxCalls)
    \/ NumberingStep
    \/ NumberingReturn

SpecCalls == Init /\ [][NextCalls]_vars

\* C21: the forest that call k of process_numbering returns holds the nodes
\* of the lines of the text of call k and no node of any other call.
C21_ResultOfOwnText ==
    \A k \in DOMAIN results :
      \A i \in DOMAIN results[k] : node_objs[results[k][i]].call = k

-----------------------------------------------------------------------------
\* main() of document_processor.py on one document of any content: the
\* document is processed and its three files are saved.

\* A header of a second section of level 1.
HeaderTwo == <<"2", " ", "T">>

SaveParas ==
    {HeaderOne, HeaderOneOne, HeaderTwo, MandatoryText, MixedText, FormulaText}

SaveDocs ==
    [paragraphs : SeqsUpTo(SaveParas, MaxParas),
     tables : SeqsUpTo({<<HeaderRow>>}, 1)]

NextSave ==
    \/ Main({<<stem>> : stem \in Stems})
    \/ ProcessDocument(SaveDocs)
    \/ Passes
    \/ Raise
    \/ SaveStart
    \/ SaveJson
    \/ SavePickle
    \/ SaveStats

SpecSave == Init /\ [][NextSave]_vars

\* The files written whole, of a kind.
Files(kind) ==
    {j \in DOMAIN written : written[j].content.kind = kind}

\* The sections of a JSON tree.
TreeSections(tree) == tree.data.sections

\* The number of sections of a JSON tree whose serialised level is l.
TreeLevelCount(tree, l) ==
    Cardinality({k \in DOMAIN TreeSections(tree).val :
                   TreeSections(tree).val[k].data.level = l})

\* The levels serialised in a JSON tree.
TreeLevels(tree) ==
    {TreeSections(tree).val[k].data.level : k \in DOMAIN TreeSections(tree).val}

\* C22: the statistics written for a document are the counts of its JSON
\* tree: the numbers of entries under sections, formulas and tables are
\* total_sections, total_formulas and total_tables, and the number of
\* sections of each serialised level is the entry of section_levels.
C22_TreeRecountsStatistics ==
    \A i \in Files("tree"), j \in Files("stats") :
      written[i].doc = written[j].doc =>
        LET tree == written[i].content.value
            stats == written[j].content.value
        IN /\ Len(tree.data.sections.keys) = stats.total_sections
           /\ Cardinality(DOMAIN tree.data.sections.val) = stats.total_sections
           /\ Len(tree.data.formulas.keys) = stats.total_formulas
           /\ Len(tree.data.tables.keys) = stats.total_tables
           /\ DOMAIN stats.section_levels = {Str(l) : l \in TreeLevels(tree)}
           /\ \A l \in TreeLevels(tree) :
                stats.section_levels[Str(l)] = TreeLevelCount(tree, l)

\* Statistics were written for a document with two sections of one level
\* and a section of another.
C22_Witness ==
    \E i \in Files("tree"), j \in Files("stats") :
      /\ written[i].doc = written[j].doc
      /\ \E l \in TreeLevels(written[i].content.value) :
           TreeLevelCount(written[i].content.value, l) = 2
      /\ Cardinality(TreeLevels(written[i].content.value)) = 2

\* Documents with citations and a table: a DocumentProcessor processes one.
ResolverDocs ==
    [paragraphs : SeqsUpTo({HeaderOne, ReferringText, CitingText, FormulaText},
                           MaxParas),
     tables : SeqsUpTo({<<HeaderRow>>}, 1)]

NextResolver ==
    \/ LoadDocument(ResolverDocs, 1)
    \/ Passes

SpecResolver == Init /\ [][NextResolver]_vars

\* A Section without its two reference lists.
SectionButReferences(s) == [s EXCEPT !.references = <<>>, !.referenced_by = <<>>]

\* A step of the section loop of _build_references changes at most the
\* references and the referenced_by of Sections.
SectionPassFrame ==
    pc = "references" =>
      /\ DOMAIN section_objs' = DOMAIN section_objs
      /\ \A s \in DOMAIN section_objs :
           SectionButReferences(section_objs'[s]) =
             SectionButReferences(section_objs[s])
      /\ UNCHANGED <<formula_objs, table_objs, current_document>>

\* A step of the formula loop of _build_references changes at most the
\* referenced_by of Formulas.
FormulaPassFrame ==
    pc = "formula_references" =>
      /\ DOMAIN formula_objs' = DOMAIN formula_objs
      /\ \A f \in DOMAIN formula_objs :
           [formula_objs'[f] EXCEPT !.referenced_by = <<>>] =
             [formula_objs[f] EXCEPT !.referenced_by = <<>>]
      /\ UNCHANGED <<section_objs, table_objs, current_document>>

\* C23: the resolver changes only reference lists (Section.references and
\* Section.referenced_by in its section loop, Formula.referenced_by in its
\* formula loop, which leaves every Section as it is), and the referenced_by
\* of every Table is empty at all times.
C23_ResolverFrame ==
    /\ [](\A t \in DOMAIN table_objs : table_objs[t].referenced_by = <<>>)
    /\ [][SectionPassFrame /\ FormulaPassFrame]_vars

\* process_document has returned a document with a table, a section that
\* refers to a section and a formula that a section cites.
C23_Witness ==
    /\ pc = "idle" /\ returned # <<>>
    /\ table_objs # <<>>
    /\ \E s \in DOMAIN section_objs : section_objs[s].references # <<>>
    /\ \E f \in DOMAIN formula_objs : formula_objs[f].referenced_by # <<>>

\* C24: a Requirement whose type is not CONDITIONAL has no conditions.
C24_ConditionsOnlyIfConditional ==
    \A s \in DOMAIN section_objs :
      \A j \in DOMAIN section_objs[s].requirements :
        section_objs[s].requirements[j].type # CONDITIONAL =>
          section_objs[s].requirements[j].conditions = <<>>

\* One paragraph with a condition clause has made a Requirement that is not
\* CONDITIONAL and a CONDITIONAL one that has the condition.
C24_Witness ==
    \E s \in DOMAIN section_objs :
      \E i, j \in DOMAIN section_objs[s].requirements :
        /\ section_objs[s].requirements[i].para = section_objs[s].requirements[j].para
        /\ section_objs[s].requirements[i].type # CONDITIONAL
        /\ section_objs[s].requirements[j].type = CONDITIONAL
        /\ section_objs[s].requirements[j].conditions # <<>>

\* Document d of the run has no paragraphs and no tables.
EmptyInput(d) == d \in DOMAIN inputs /\ inputs[d] = <<>> /\ tables = <<>>

\* C25: for a document with no paragraphs and no tables process_document
\* returns a Document whose sections, formulas and tables are empty, and
\* the statistics written for it have the three totals 0, no entry in
\* section_levels and 0 for each of the three requirement types.
C25_EmptyDocument ==
    /\ \A d \in DOMAIN returned :
         EmptyInput(d) =>
           /\ returned[d].sections = EmptyDict
           /\ returned[d].formulas = EmptyDict
           /\ returned[d].tables = EmptyDict
    /\ \A j \in Files("stats") :
         EmptyInput(written[j].doc) =>
           LET stats == written[j].content.value
           IN /\ stats.total_sections = 0
              /\ stats.total_formulas = 0
              /\ stats.total_tables = 0
              /\ DOMAIN stats.section_levels = {}
              /\ DOMAIN stats.requirement_types =
                   {MANDATORY, RECOMMENDED, CONDITIONAL}
              /\ \A t \in DOMAIN stats.requirement_types :
                   stats.requirement_types[t] = 0

\* The three files of a document with no paragraphs and no tables have been
\* written.
C25_Witness ==
    /\ saved # <<>>
    /\ \E j \in Files("stats") : EmptyInput(written[j].doc)
    /\ \E d \in DOMAIN returned : EmptyInput(d)

\* The pre-order traversal of a list of nodes and their children lists.
RECURSIVE PreOrder(_)
PreOrder(nodes) ==
    IF nodes = <<>> THEN <<>>
    ELSE <<Head(nodes)>> \o PreOrder(node_objs[Head(nodes)].children)
           \o PreOrder(Tail(nodes))

\* The parent chain of node n, root first.
RECURSIVE ParentChain(_)
ParentChain(n) ==
    IF n = 0 THEN <<>> ELSE Append(ParentChain(node_objs[n].parent), n)

\* The nodes made by call c, in the order they were made, and its roots.
CallNodes(c) ==
    SelectSeq([n \in 1..Len(node_objs) |-> n], LAMBDA n : node_objs[n].call = c)
CallRoots(c) == SelectSeq(root_nodes, LAMBDA n : node_objs[n].call = c)

\* C26: the nodes a call of process_numbering has made are the numbered
\* lines read so far, one node a line in the order of the lines; the
\* pre-order traversal of the call's roots and their children lists visits
\* them in that order; and while the call scans, current_path is the parent
\* chain, root first, of the node made last (empty before the first node).
C26_ForestInDocumentOrder ==
    calls > 0 =>
      LET made == CallNodes(calls)
      IN /\ {node_objs[made[i]].line : i \in DOMAIN made} =
              {i \in 1..LinesRead : IsNumbered(i)}
         /\ \A i, j \in DOMAIN made :
              i < j => node_objs[made[i]].line < node_objs[made[j]].line
         /\ PreOrder(CallRoots(calls)) = made
         /\ num_pc = "running" =>
              current_path = IF made = <<>> THEN <<>>
                             ELSE ParentChain(made[Len(made)])

\* A call has returned a root with two children and a grandchild under the
\* first of them.
C26_Witness ==
    /\ num_pc = "idle" /\ results # <<>>
    /\ \E n \in DOMAIN node_objs :
         /\ Len(node_objs[n].children) = 2
         /\ node_objs[node_objs[n].children[1]].children # <<>>

\* The Section objects made from headers of document d before paragraph p
\* whose id is number: what Document.sections had under number when the
\* header at p was read.
StoredBefore(d, p, number) ==
    {a \in DOMAIN section_objs :
       /\ section_objs[a].doc = d
       /\ section_objs[a].para < p
       /\ section_objs[a].id = number}

\* C27: the parent_section of a Section is its id without the last segment
\* and names a section one level up; a Section of level > 1 has a parent if
\* and only if a header with that id was read before its own in the same
\* document; a Section of level 1 has none.
C27_ParentLinksExact ==
    \A b \in DOMAIN section_objs :
      LET B == section_objs[b]
          before == StoredBefore(B.doc, B.para, ParentNumber(B.id))
      IN /\ B.parent_section # NULL =>
              /\ B.parent_section = ParentNumber(B.id)
              /\ before # {}
              /\ \A a \in before : B.level = section_objs[a].level + 1
         /\ B.level > 1 => (B.parent_section # NULL <=> before # {})
         /\ B.level = 1 => B.parent_section = NULL

\* A document has a subsection read before the header of its parent, which
\* has no parent, and the same subsection read after it, which has one.
C27_Witness ==
    /\ SectionsDone
    /\ \E a, b \in DOMAIN section_objs :
         /\ section_objs[a].doc = DocNo /\ section_objs[b].doc = DocNo
         /\ section_objs[a].id = section_objs[b].id
         /\ section_objs[a].level > 1
         /\ section_objs[a].parent_section = NULL
         /\ section_objs[b].parent_section # NULL

\* The serialised requirements of a JSON tree: section key and position.
TreeRequirements(tree) ==
    {p \in (DOMAIN TreeSections(tree).val) \X (1..(3 * MaxParas)) :
       p[2] <= Len(TreeSections(tree).val[p[1]].data.requirements)}

\* C28: in the JSON tree just written, two Requirements of different types
\* have different serialised type values.
C28_TypesDistinctInTree ==
    (driver = "word" /\ step = "pickle") =>
      LET tree == written[Len(written)].content.value
          secs == current_document.sections
      IN \A p, q \in TreeRequirements(tree) :
           LET r == section_objs[secs.val[p[1]]].requirements[p[2]]
               s == section_objs[secs.val[q[1]]].requirements[q[2]]
               rj == TreeSections(tree).val[p[1]].data.requirements[p[2]]
               sj == TreeSections(tree).val[q[1]].data.requirements[q[2]]
           IN r.type # s.type => rj.data.type # sj.data.type

\* C29: every prompt format_prompt has returned is the prompt a new
\* GPTTeacher of the same language returns for the same question and
\* context, and the templates are as __init__ made them.
C29_PromptOfArgumentsOnly ==
    /\ prompts = InitialPrompts
    /\ \A i \in DOMAIN prompt_log :
         prompt_log[i].returned =
           JoinNL(PromptParts(InitialPrompts[language], language,
                              prompt_log[i].question, prompt_log[i].context))

\* The JSON tree files of a stem in the data directory: written whole.
TreeFiles(stem) ==
    {path \in Directory :
       /\ Len(path) = 3 /\ path[1] = stem /\ path[3] = "json"
       /\ written[LastWrite(path)].content.kind = "tree"}

\* C30: when load_documents has just run on a data directory with a JSON
\* tree file of a stem, documents has an entry for the stem, and the entry
\* is the JSON tree written last.
C30_LoadsLatestTree ==
    (documents.outcome # "none" /\ documents.at = Len(written)) =>
      \A stem \in Stems :
        TreeFiles(stem) # {} =>
          /\ documents.outcome = "loaded"
          /\ stem \in DOMAIN documents.entries
          /\ documents.entries[stem] =
               written[LastWrite(Latest(TreeFiles(stem)))].content
=============================================================================
